---- MODULE Spec2Model ----
(***************************************************************************)
(* Model of MLServer's model registry (mlserver/registry.py) and of the    *)
(* data-plane dispatcher (mlserver/handlers/dataplane.py).                 *)
(*                                                                         *)
(* Coroutines are modelled as tasks; one action is the code a coroutine    *)
(* runs between two points where it really suspends (a hook, Model.load,   *)
(* Model.unload, Model.predict, asyncio.gather).                           *)
(***************************************************************************)
EXTENDS Integers, Sequences, FiniteSets, TLC

(***************************************************************************)
(* Bounds of the model.                                                    *)
(***************************************************************************)
\* calls (load, unload, unload_version, infer) made in one behaviour
MaxOps == 2

(***************************************************************************)
(* Versions.  A version is Optional[str]: None, or a string, kept as the   *)
(* sequence of its characters so that int() and string comparison are      *)
(* computed.                                                               *)
(***************************************************************************)
None == [isNone |-> TRUE, str |-> <<>>]

Ver(s) == [isNone |-> FALSE, str |-> s]

\* Python truthiness of an Optional[str]: None and "" are falsy
Truthy(v) == ~v.isNone /\ v.str # <<>>

Digits == {"0", "1", "2"}

DigitVal(c) == CASE c = "0" -> 0 [] c = "1" -> 1 [] c = "2" -> 2 [] OTHER -> 0

\* code point order of the characters used in version strings
CharOrd(c) == CASE c = "0" -> 48 [] c = "1" -> 49 [] c = "2" -> 50
                [] c = "a" -> 97 [] c = "b" -> 98 [] OTHER -> 0

\* int(s) raises ValueError unless s is a non-empty string of digits
IsInt(s) == Len(s) > 0 /\ \A i \in 1..Len(s) : s[i] \in Digits

RECURSIVE IntOf(_)
IntOf(s) == IF s = <<>> THEN 0
            ELSE 10 * IntOf(SubSeq(s, 1, Len(s) - 1)) + DigitVal(s[Len(s)])

\* Python's str comparison: -1, 0, 1 as s < t, s = t, s > t
RECURSIVE StrCmp(_, _)
StrCmp(s, t) ==
    IF s = <<>> /\ t = <<>> THEN 0
    ELSE IF s = <<>> THEN -1
    ELSE IF t = <<>> THEN 1
    ELSE IF CharOrd(Head(s)) < CharOrd(Head(t)) THEN -1
    ELSE IF CharOrd(Head(s)) > CharOrd(Head(t)) THEN 1
    ELSE StrCmp(Tail(s), Tail(t))

\* _is_newer(a, b) on the versions of the two models
is_newer(a, b) ==
    IF a.isNone THEN 1
    ELSE IF b.isNone THEN -1
    ELSE IF IsInt(a.str) /\ IsInt(b.str) THEN IntOf(a.str) - IntOf(b.str)
    ELSE StrCmp(a.str, b.str)

\* the model names and the versions that settings and requests carry
Names == {"m", "n"}

InputVersions == {None, Ver(<<"1">>), Ver(<<"2">>)}

(***************************************************************************)
(* State.                                                                  *)
(***************************************************************************)
VARIABLES
    objs,      \* the MLModel objects ever built: Seq of [name, version, ready, unloads]
    regs,      \* the SingleModelRegistry objects ever built: Seq of [name, versions, default]
    models,    \* MultiModelRegistry._models: name -> index into regs, 0 when absent
    task,      \* the control-plane coroutines
    bg,        \* _unload_model coroutines that outlive the gather that started them
    client,    \* the data-plane coroutines (infer)
    metrics,   \* the Prometheus counters and the SLA gauge, per (model, version) label
    uuids,     \* number of ids generate_uuid has handed out
    ops        \* calls made so far

vars == <<objs, regs, models, task, bg, client, metrics, uuids, ops>>

(***************************************************************************)
(* SingleModelRegistry: pure helpers.  versions is Python's dict, kept as  *)
(* the sequence of its items in insertion order; a model is its index in   *)
(* objs and 0 stands for None.                                             *)
(***************************************************************************)
HasKey(vs, k) == \E i \in 1..Len(vs) : vs[i].k = k

Lookup(vs, k) == vs[CHOOSE i \in 1..Len(vs) : vs[i].k = k].m

\* d[k] = m: an existing key keeps its place, a new key goes last
Put(vs, k, m) ==
    IF HasKey(vs, k)
    THEN [i \in 1..Len(vs) |-> IF vs[i].k = k THEN [k |-> k, m |-> m] ELSE vs[i]]
    ELSE Append(vs, [k |-> k, m |-> m])

DelKey(vs, k) == SelectSeq(vs, LAMBDA e : e.k # k)

\* max(self._versions.values(), key=cmp_to_key(_is_newer)): the first of the
\* greatest items in iteration order
RECURSIVE MaxFrom(_, _, _, _)
MaxFrom(o, vs, i, best) ==
    IF i > Len(vs) THEN best
    ELSE IF is_newer(o[vs[i].m].version, o[best].version) > 0
         THEN MaxFrom(o, vs, i + 1, vs[i].m)
         ELSE MaxFrom(o, vs, i + 1, best)

find_default(o, r) ==
    IF r.default = 0 /\ r.versions # <<>>
    THEN MaxFrom(o, r.versions, 2, r.versions[1].m)
    ELSE r.default

\* the registry after the `default` property was read (it caches what it finds)
default(o, r) == [r EXCEPT !.default = find_default(o, r)]

clear_default(r) == [r EXCEPT !.default = 0]

refresh_default(o, r, new) ==
    IF r.default = 0 THEN [r EXCEPT !.default = new]
    ELSE IF o[new].version.isNone THEN [r EXCEPT !.default = new]
    ELSE IF o[r.default].version.isNone THEN r
    ELSE IF is_newer(o[new].version, o[r.default].version) >= 0
         THEN [r EXCEPT !.default = new]
         ELSE r

register(o, r, m) ==
    refresh_default(o,
        IF Truthy(o[m].version)
        THEN [r EXCEPT !.versions = Put(@, o[m].version, m)]
        ELSE r,
        m)

\* _find_model: the registry after the call, and the model found (0 for None)
find_model_reg(o, r, v) == IF Truthy(v) THEN r ELSE default(o, r)

find_model(o, r, v) ==
    IF Truthy(v)
    THEN IF HasKey(r.versions, v) THEN Lookup(r.versions, v) ELSE 0
    ELSE find_default(o, r)

\* get_models: list(self._versions.values()) plus a version-less default
get_models(o, r) ==
    LET vals == [i \in 1..Len(r.versions) |-> r.versions[i].m]
        d == find_default(o, r)
    IN  IF d # 0 /\ ~Truthy(o[d].version) THEN Append(vals, d) ELSE vals

empty(o, r) == r.versions = <<>> /\ find_default(o, r) = 0


(***************************************************************************)
(* Configuration: the hook lists handed to the registry at construction    *)
(* (they are never changed afterwards) and the outcomes of the code the    *)
(* registry calls into.  Every list is non-empty here, so that each await  *)
(* on a hook is a point where other coroutines run.                        *)
(***************************************************************************)
on_model_load == <<"load_hook">>

on_model_reload == <<"load_batching">>

\* a load hook returns the model it was given, returns a new object wrapping
\* it, changes the model's version and returns it, or raises
LoadHookOutcomes == {"same", "wrap", "rewrite", "raise"}

ReloadHookOutcomes == {"same", "wrap", "raise"}

\* Model.load() and Model.unload() return a bool or raise
CallOutcomes == {"true", "false", "raise"}

AdminTasks == {"t1", "t2"}

NoTask ==
    [pc |-> "idle", op |-> "none", name |-> "m", ver |-> None, reg |-> 0,
     new |-> 0, cur |-> 0, old |-> 0, i |-> 0, subs |-> <<>>,
     path |-> "none", result |-> "none", exc |-> "none", at |-> "none"]

\* MLModel.__init__: a new model is not ready
NewModel(n, v) == [name |-> n, version |-> v, ready |-> FALSE, unloads |-> 0]

\* a call that ended: `result` is "ok" or the exception that propagated, `at`
\* the await it ended at ("idle": before the first one)
Done(tk, res) ==
    [NoTask EXCEPT !.pc = "done", !.op = tk.op, !.name = tk.name, !.path = tk.path,
                   !.result = res, !.at = tk.pc]

Begin(t) ==
    /\ task[t].pc \in {"idle", "done"}
    /\ ops < MaxOps
    /\ ops' = ops + 1

\* the part of _unload_model between the hooks and `await model.unload()`
unload_model_del(o, r, m) ==
    LET v == o[m].version
        keyError == Truthy(v) /\ ~HasKey(r.versions, v)
        r1 == IF Truthy(v) THEN [r EXCEPT !.versions = DelKey(@, v)] ELSE r
        r2 == default(o, r1)
        r3 == IF r2.default = m THEN clear_default(r2) ELSE r2
    IN  [err |-> keyError, reg |-> IF keyError THEN r ELSE r3]

\* variant: Model.unload takes every model down with it
unload_model_ready_all(o, m, outcome) ==
    [x \in 1..Len(o) |-> [o[x] EXCEPT !.unloads = @ + 1, !.ready = FALSE]]

\* `model.ready = not await model.unload()`; a raise leaves ready as it was
unload_model_ready(o, m, outcome) ==
    [o EXCEPT ![m] = [@ EXCEPT !.unloads = @ + 1,
                               !.ready = IF outcome = "raise" THEN @
                                         ELSE outcome = "false"]]

(***************************************************************************)
(* MultiModelRegistry.load -> SingleModelRegistry.load, up to the first    *)
(* await of _load_model or _reload_model.                                  *)
(***************************************************************************)
load(t, n, v, init_ok) ==
    /\ Begin(t)
    /\ LET created == models[n] = 0
           rid == IF created THEN Len(regs) + 1 ELSE models[n]
           regs1 == IF created
                    THEN Append(regs, [name |-> n, versions |-> <<>>, default |-> 0])
                    ELSE regs
           prev == find_model(objs, regs1[rid], v)
           r1 == find_model_reg(objs, regs1[rid], v)
           mid == Len(objs) + 1
           o1 == Append(objs, NewModel(n, v))
           tk == [NoTask EXCEPT !.op = "load", !.name = n, !.ver = v, !.reg = rid]
       IN  /\ models' = [models EXCEPT ![n] = rid]
           /\ IF ~init_ok
              THEN /\ regs' = [regs1 EXCEPT ![rid] = r1]
                   /\ objs' = objs
                   /\ task' = [task EXCEPT ![t] = Done(tk, "Error")]
              ELSE IF prev # 0
              THEN /\ regs' = [regs1 EXCEPT ![rid] = r1]
                   /\ objs' = o1
                   /\ task' = [task EXCEPT ![t] =
                         [tk EXCEPT !.pc = "reload_hook", !.new = mid, !.cur = mid,
                                    !.old = prev, !.i = 1, !.path = "reload"]]
              ELSE /\ regs' = [regs1 EXCEPT ![rid] = register(o1, r1, mid)]
                   /\ objs' = o1
                   /\ task' = [task EXCEPT ![t] =
                         [tk EXCEPT !.pc = "load_hook", !.new = mid, !.cur = mid,
                                    !.i = 1, !.path = "first"]]
    /\ UNCHANGED <<bg, client, metrics, uuids>>

\* what a load hook does to the model it is given: the objects afterwards and
\* the model it returns
load_hook_objs(o, m, outcome, v2) ==
    CASE outcome = "wrap" -> Append(o, NewModel(o[m].name, o[m].version))
      [] outcome = "rewrite" -> [o EXCEPT ![m].version = v2]
      [] OTHER -> o

load_hook_model(o, m, outcome) == IF outcome = "wrap" THEN Len(o) + 1 ELSE m

\* _load_model: a callback of on_model_load returns (or raises); after the
\* last one the model is registered again and Model.load() is awaited
load_hook(t, outcome, v2) ==
    /\ task[t].pc = "load_hook"
    /\ outcome = "rewrite" => (Truthy(v2) /\ v2 # objs[task[t].cur].version)
    /\ outcome # "rewrite" => v2 = None
    /\ LET tk == task[t]
           o1 == load_hook_objs(objs, tk.cur, outcome, v2)
           m1 == load_hook_model(objs, tk.cur, outcome)
       IN  IF outcome = "raise"
           THEN /\ task' = [task EXCEPT ![t] =
                      [tk EXCEPT !.pc = "um_hooks", !.exc = "Error"]]
                /\ UNCHANGED <<objs, regs>>
           ELSE IF tk.i < Len(on_model_load)
           THEN /\ task' = [task EXCEPT ![t] = [tk EXCEPT !.cur = m1, !.i = @ + 1]]
                /\ objs' = o1
                /\ UNCHANGED regs
           ELSE /\ task' = [task EXCEPT ![t] =
                      [tk EXCEPT !.cur = m1, !.pc = "model_load"]]
                /\ objs' = o1
                /\ regs' = [regs EXCEPT ![tk.reg] = register(o1, @, m1)]
    /\ UNCHANGED <<models, bg, client, metrics, uuids, ops>>

\* _load_model: `model.ready = await model.load()`
model_load(t, outcome) ==
    /\ task[t].pc = "model_load"
    /\ LET tk == task[t]
       IN  IF outcome = "raise"
           THEN /\ task' = [task EXCEPT ![t] =
                      [tk EXCEPT !.pc = "um_hooks", !.exc = "Error"]]
                /\ UNCHANGED objs
           ELSE /\ objs' = [objs EXCEPT ![tk.cur].ready = (outcome = "true")]
                /\ task' = [task EXCEPT ![t] = Done(tk, "ok")]
    /\ UNCHANGED <<regs, models, bg, client, metrics, uuids, ops>>

\* _unload_model(model) called from _load_model's except block or from
\* unload_version: the on_model_unload hooks have all returned
unload_model_hooks(t) ==
    /\ task[t].pc = "um_hooks"
    /\ LET tk == task[t]
           d == unload_model_del(objs, regs[tk.reg], tk.cur)
       IN  IF d.err
           THEN /\ task' = [task EXCEPT ![t] = Done(tk, "KeyError")]
                /\ UNCHANGED regs
           ELSE /\ task' = [task EXCEPT ![t] = [tk EXCEPT !.pc = "um_unload"]]
                /\ regs' = [regs EXCEPT ![tk.reg] = d.reg]
    /\ UNCHANGED <<objs, models, bg, client, metrics, uuids, ops>>

\* MultiModelRegistry.unload_version after the child's unload_version
unload_version_tail(mdl, o, r, n) ==
    IF empty(o, r)
    THEN [err |-> mdl[n] = 0, models |-> [mdl EXCEPT ![n] = 0]]
    ELSE [err |-> FALSE, models |-> mdl]

\* _unload_model: `model.ready = not await model.unload()`, then back in the
\* caller: _load_model re-raises, MultiModelRegistry.unload_version drops an
\* empty child
unload_model_unload(t, outcome) ==
    /\ task[t].pc = "um_unload"
    /\ LET tk == task[t]
           o1 == unload_model_ready(objs, tk.cur, outcome)
           r1 == default(o1, regs[tk.reg])
           tl == unload_version_tail(models, o1, regs[tk.reg], tk.name)
       IN  /\ objs' = o1
           /\ IF outcome = "raise"
              THEN /\ task' = [task EXCEPT ![t] = Done(tk, "Error")]
                   /\ UNCHANGED <<regs, models>>
              ELSE IF tk.op = "load"
              THEN /\ task' = [task EXCEPT ![t] = Done(tk, tk.exc)]
                   /\ UNCHANGED <<regs, models>>
              ELSE /\ regs' = [regs EXCEPT ![tk.reg] = r1]
                   /\ models' = tl.models
                   /\ task' = [task EXCEPT ![t] =
                         Done(tk, IF tl.err THEN "KeyError" ELSE "ok")]
    /\ UNCHANGED <<bg, client, metrics, uuids, ops>>

(***************************************************************************)
(* _reload_model.                                                          *)
(***************************************************************************)
reload_hook_objs(o, m, outcome) ==
    IF outcome = "wrap" THEN Append(o, NewModel(o[m].name, o[m].version)) ELSE o

\* a callback of on_model_reload returns (or raises: nothing catches it);
\* after the last one new_model.load() is awaited
reload_hook(t, outcome) ==
    /\ task[t].pc = "reload_hook"
    /\ LET tk == task[t]
           o1 == reload_hook_objs(objs, tk.cur, outcome)
           m1 == IF outcome = "wrap" THEN Len(objs) + 1 ELSE tk.cur
       IN  IF outcome = "raise"
           THEN /\ task' = [task EXCEPT ![t] = Done(tk, "Error")]
                /\ UNCHANGED objs
           ELSE /\ objs' = o1
                /\ task' = [task EXCEPT ![t] =
                      IF tk.i < Len(on_model_reload)
                      THEN [tk EXCEPT !.cur = m1, !.i = @ + 1]
                      ELSE [tk EXCEPT !.cur = m1, !.pc = "reload_load"]]
    /\ UNCHANGED <<regs, models, bg, client, metrics, uuids, ops>>

\* variant: the new model is not registered
reload_register_missing(o, r, old, new) == r

\* the registry after `self._register(new_model)` and
\* `if old_model == self.default: self._clear_default()`
reload_register(o, r, old, new) ==
    LET r1 == default(o, register(o, r, new))
    IN  IF r1.default = old THEN clear_default(r1) ELSE r1

\* variant: the new model is registered before its load is awaited
reload_load_reg_early(o, r, old, new, outcome) == reload_register(o, r, old, new)

\* the registry after `new_model.ready = await new_model.load()` and what
\* follows it: a raise leaves _reload_model before anything is registered
reload_load_reg(o, r, old, new, outcome) ==
    IF outcome = "raise" THEN r ELSE reload_register(o, r, old, new)

\* `new_model.ready = await new_model.load()`, the registration of the new
\* model, up to `await old_model.unload()`
reload_load(t, outcome) ==
    /\ task[t].pc = "reload_load"
    /\ LET tk == task[t]
           o1 == IF outcome = "raise" THEN objs
                 ELSE [objs EXCEPT ![tk.cur].ready = (outcome = "true")]
       IN  /\ objs' = o1
           /\ regs' = [regs EXCEPT ![tk.reg] =
                           reload_load_reg(o1, @, tk.old, tk.cur, outcome)]
           /\ task' = [task EXCEPT ![t] =
                 IF outcome = "raise" THEN Done(tk, "Error")
                 ELSE [tk EXCEPT !.pc = "reload_unload"]]
    /\ UNCHANGED <<models, bg, client, metrics, uuids, ops>>

\* `old_model.ready = not await old_model.unload()`
reload_unload(t, outcome) ==
    /\ task[t].pc = "reload_unload"
    /\ objs' = unload_model_ready(objs, task[t].old, outcome)
    /\ task' = [task EXCEPT ![t] =
                   Done(task[t], IF outcome = "raise" THEN "Error" ELSE "ok")]
    /\ UNCHANGED <<regs, models, bg, client, metrics, uuids, ops>>

(***************************************************************************)
(* unload_version.                                                         *)
(***************************************************************************)
\* MultiModelRegistry.unload_version -> SingleModelRegistry.unload_version,
\* up to the await on the on_model_unload hooks in _unload_model
unload_version(t, n, v) ==
    /\ Begin(t)
    /\ LET tk == [NoTask EXCEPT !.op = "unload_version", !.name = n, !.ver = v,
                                !.reg = models[n]]
       IN  IF models[n] = 0
           THEN /\ task' = [task EXCEPT ![t] = Done(tk, "ModelNotFound")]
                /\ UNCHANGED regs
           ELSE LET m == find_model(objs, regs[models[n]], v)
                IN  /\ regs' = [regs EXCEPT ![models[n]] = find_model_reg(objs, @, v)]
                    /\ task' = [task EXCEPT ![t] =
                          IF m = 0 THEN Done(tk, "ModelNotFound")
                          ELSE [tk EXCEPT !.pc = "um_hooks", !.cur = m]]
    /\ UNCHANGED <<objs, models, bg, client, metrics, uuids>>

(***************************************************************************)
(* unload: asyncio.gather runs one _unload_model coroutine per model of    *)
(* the snapshot.  gather raises the first exception of a coroutine into    *)
(* unload() and lets the other coroutines run on (bg).                     *)
(***************************************************************************)
\* the end of unload(): versions.clear(), _clear_default(), then
\* `del self._models[name]` in MultiModelRegistry.unload
unload_clear(r) == [r EXCEPT !.versions = <<>>, !.default = 0]

\* variant: the child stays in _models
unload_del_missing(mdl, n) == mdl

\* `del self._models[name]`
unload_del(mdl, n) == [mdl EXCEPT ![n] = 0]

Pending(subs, rid, except) ==
    LET idx == {j \in 1..Len(subs) : j # except /\ subs[j].stage # "done"}
        F[S \in SUBSET idx] ==
            IF S = {} THEN <<>>
            ELSE LET j == CHOOSE x \in S : \A y \in S : x <= y
                 IN  <<[reg |-> rid, m |-> subs[j].m, stage |-> subs[j].stage]>>
                     \o F[S \ {j}]
    IN  F[idx]

unload(t, n) ==
    /\ Begin(t)
    /\ LET tk == [NoTask EXCEPT !.op = "unload", !.name = n, !.reg = models[n]]
       IN  IF models[n] = 0
           THEN /\ task' = [task EXCEPT ![t] = Done(tk, "ModelNotFound")]
                /\ UNCHANGED <<regs, models>>
           ELSE LET r == regs[models[n]]
                    snap == get_models(objs, r)
                IN  IF snap = <<>>
                    THEN /\ regs' = [regs EXCEPT ![models[n]] = unload_clear(r)]
                         /\ models' = unload_del(models, n)
                         /\ task' = [task EXCEPT ![t] = Done(tk, "ok")]
                    ELSE /\ regs' = [regs EXCEPT ![models[n]] = default(objs, r)]
                         /\ UNCHANGED models
                         /\ task' = [task EXCEPT ![t] =
                               [tk EXCEPT !.pc = "gather",
                                          !.subs = [j \in 1..Len(snap) |->
                                              [m |-> snap[j], stage |-> "hooks",
                                               u0 |-> objs[snap[j]].unloads]]]]
    /\ UNCHANGED <<objs, bg, client, metrics, uuids>>

\* one _unload_model of the gather: its on_model_unload hooks have returned
gather_hooks(t, j) ==
    /\ task[t].pc = "gather"
    /\ j \in 1..Len(task[t].subs)
    /\ task[t].subs[j].stage = "hooks"
    /\ LET tk == task[t]
           d == unload_model_del(objs, regs[tk.reg], tk.subs[j].m)
       IN  IF d.err
           THEN /\ task' = [task EXCEPT ![t] = Done(tk, "KeyError")]
                /\ bg' = bg \o Pending(tk.subs, tk.reg, j)
                /\ UNCHANGED regs
           ELSE /\ task' = [task EXCEPT ![t].subs[j].stage = "unload"]
                /\ regs' = [regs EXCEPT ![tk.reg] = d.reg]
                /\ UNCHANGED bg
    /\ UNCHANGED <<objs, models, client, metrics, uuids, ops>>

\* one _unload_model of the gather: Model.unload() has returned or raised
gather_unload(t, j, outcome) ==
    /\ task[t].pc = "gather"
    /\ j \in 1..Len(task[t].subs)
    /\ task[t].subs[j].stage = "unload"
    /\ objs' = unload_model_ready(objs, task[t].subs[j].m, outcome)
    /\ IF outcome = "raise"
       THEN /\ task' = [task EXCEPT ![t] = Done(task[t], "Error")]
            /\ bg' = bg \o Pending(task[t].subs, task[t].reg, j)
       ELSE /\ task' = [task EXCEPT ![t].subs[j].stage = "done"]
            /\ UNCHANGED bg
    /\ UNCHANGED <<regs, models, client, metrics, uuids, ops>>

\* every coroutine of the gather has returned: unload() and then
\* MultiModelRegistry.unload run to their end
unload_finish(t) ==
    /\ task[t].pc = "gather"
    /\ \A j \in 1..Len(task[t].subs) : task[t].subs[j].stage = "done"
    /\ regs' = [regs EXCEPT ![task[t].reg] = unload_clear(@)]
    /\ models' = unload_del(models, task[t].name)
    /\ task' = [task EXCEPT ![t] =
          Done(task[t], IF models[task[t].name] = 0 THEN "KeyError" ELSE "ok")]
    /\ UNCHANGED <<objs, bg, client, metrics, uuids, ops>>

RemoveAt(s, j) == [i \in 1..(Len(s) - 1) |-> IF i < j THEN s[i] ELSE s[i + 1]]

\* an _unload_model whose gather has already raised: nobody awaits it
bg_hooks(j) ==
    /\ j \in 1..Len(bg)
    /\ bg[j].stage = "hooks"
    /\ LET d == unload_model_del(objs, regs[bg[j].reg], bg[j].m)
       IN  IF d.err
           THEN /\ bg' = RemoveAt(bg, j)
                /\ UNCHANGED regs
           ELSE /\ bg' = [bg EXCEPT ![j].stage = "unload"]
                /\ regs' = [regs EXCEPT ![bg[j].reg] = d.reg]
    /\ UNCHANGED <<objs, models, task, client, metrics, uuids, ops>>

bg_unload(j, outcome) ==
    /\ j \in 1..Len(bg)
    /\ bg[j].stage = "unload"
    /\ objs' = unload_model_ready(objs, bg[j].m, outcome)
    /\ bg' = RemoveAt(bg, j)
    /\ UNCHANGED <<regs, models, task, client, metrics, uuids, ops>>

(***************************************************************************)
(* Readers.                                                                *)
(***************************************************************************)
\* MultiModelRegistry.get_model: 0 stands for ModelNotFound
get_model(mdl, rs, o, n, v) ==
    IF mdl[n] = 0 THEN 0 ELSE find_model(o, rs[mdl[n]], v)

\* the registries after get_model (reading `default` caches it)
get_model_regs(mdl, rs, o, n, v) ==
    IF mdl[n] = 0 THEN rs
    ELSE [rs EXCEPT ![mdl[n]] = find_model_reg(o, @, v)]

\* a reader (model_ready, model_metadata) resolves a model
read_model(n, v) ==
    /\ regs' = get_model_regs(models, regs, objs, n, v)
    /\ regs' # regs
    /\ UNCHANGED <<objs, models, task, bg, client, metrics, uuids, ops>>

(***************************************************************************)
(* DataPlane.infer.  An InferenceRequest is [id, inputs]; id 0 stands for  *)
(* None; an Optional field is the empty sequence (None) or a sequence of   *)
(* one value; extended_parameters is a mapping from strings.               *)
(***************************************************************************)
Clients == {"c1"}

Labels == Names \X InputVersions

NoSlaMapping == [priority |-> 1]

SlaMapping == [sla |-> 42]

RequestInputs ==
    { <<>>,                                                \* inputs == []
      <<[parameters |-> <<>>]>>,                           \* parameters is None
      <<[parameters |-> <<[extended_parameters |-> <<>>]>>]>>,
      <<[parameters |-> <<[extended_parameters |-> <<NoSlaMapping>>]>>]>>,
      <<[parameters |-> <<[extended_parameters |-> <<SlaMapping>>]>>]>> }

RequestIds == {0, 7}

\* ids that models put on their responses before the echo
ResponseIds == {0, 9}

\* `payload.inputs[0].parameters.extended_parameters['sla']`: the exception
\* the expression raises ("none" when it yields a value) and the value
sla_lookup(inputs) ==
    IF inputs = <<>> THEN [exc |-> "IndexError", value |-> 0]
    ELSE IF inputs[1].parameters = <<>>
    THEN [exc |-> "AttributeError", value |-> 0]
    ELSE IF inputs[1].parameters[1].extended_parameters = <<>>
    THEN [exc |-> "TypeError", value |-> 0]
    ELSE LET e == inputs[1].parameters[1].extended_parameters[1]
         IN  IF "sla" \in DOMAIN e
             THEN [exc |-> "none", value |-> e["sla"]]
             ELSE [exc |-> "KeyError", value |-> 0]

\* the try/except around it: AttributeError and TypeError give 0, any other
\* exception leaves infer
sla_caught(exc) == exc \in {"AttributeError", "TypeError"}

NoClient ==
    [pc |-> "idle", name |-> "m", ver |-> None, id |-> 0, reqid |-> 0,
     inputs |-> <<>>, model |-> 0, result |-> "none", resp |-> 0, mw |-> 0,
     call |-> 0]

\* count_exceptions(): an exception that leaves the `with` block is counted
Failed(mt, l) == [mt EXCEPT ![l].failure = @ + 1]

\* infer up to `await model.predict(payload)`; mw_ok tells whether the
\* request middleware accepts the payload
infer(c, id, inputs, n, v, mw_ok) ==
    /\ client[c].pc \in {"idle", "done"}
    /\ ops < MaxOps
    /\ ops' = ops + 1
    /\ LET l == <<n, v>>
           ck == [NoClient EXCEPT !.name = n, !.ver = v, !.id = id, !.reqid = id,
                                  !.inputs = inputs, !.call = ops + 1]
           m1 == [metrics EXCEPT ![l].total = @ + 1]
           s == sla_lookup(inputs)
           m2 == [m1 EXCEPT ![l].sla = IF s.exc = "none" THEN s.value ELSE 0]
           id1 == IF id = 0 THEN 100 + uuids + 1 ELSE id
           ck1 == [ck EXCEPT !.id = id1]
           mdl == get_model(models, regs, objs, n, v)
           end(res) == [ck1 EXCEPT !.pc = "done", !.result = res]
       IN  IF s.exc # "none" /\ ~sla_caught(s.exc)
           THEN /\ metrics' = m1
                /\ client' = [client EXCEPT ![c] =
                                 [ck EXCEPT !.pc = "done", !.result = s.exc]]
                /\ UNCHANGED <<regs, uuids>>
           ELSE /\ uuids' = IF id = 0 THEN uuids + 1 ELSE uuids
                /\ regs' = get_model_regs(models, regs, objs, n, v)
                /\ IF mdl = 0
                   THEN /\ metrics' = Failed(m2, l)
                        /\ client' = [client EXCEPT ![c] = end("ModelNotFound")]
                   ELSE IF ~objs[mdl].ready
                   THEN /\ metrics' = Failed(m2, l)
                        /\ client' = [client EXCEPT ![c] =
                              [end("ModelNotReady") EXCEPT !.model = mdl]]
                   ELSE IF ~mw_ok
                   THEN /\ metrics' = Failed(m2, l)
                        /\ client' = [client EXCEPT ![c] =
                              [end("Error") EXCEPT !.model = mdl, !.mw = 1]]
                   ELSE /\ metrics' = m2
                        /\ client' = [client EXCEPT ![c] =
                              [ck1 EXCEPT !.pc = "predict", !.model = mdl, !.mw = 1]]
    /\ UNCHANGED <<objs, models, task, bg>>

\* variant: the response keeps the id the model gave it
echo_id_missing(payload_id, rid) == rid

\* `prediction.id = payload.id`
echo_id(payload_id, rid) == payload_id

\* Model.predict returns a response carrying id rid (or raises); the id is
\* echoed, the response middleware runs, the success counter is incremented
predict_return(c, outcome, rid, mw_ok) ==
    /\ client[c].pc = "predict"
    /\ LET ck == client[c]
           l == <<ck.name, ck.ver>>
       IN  IF outcome = "raise" \/ ~mw_ok
           THEN /\ metrics' = Failed(metrics, l)
                /\ client' = [client EXCEPT ![c] =
                      [ck EXCEPT !.pc = "done", !.result = "Error"]]
           ELSE /\ metrics' = [metrics EXCEPT ![l].success = @ + 1]
                /\ client' = [client EXCEPT ![c] =
                      [ck EXCEPT !.pc = "done", !.result = "ok",
                                 !.resp = echo_id(ck.id, rid)]]
    /\ UNCHANGED <<objs, regs, models, task, bg, uuids, ops>>

(***************************************************************************)
(* Specifications.                                                         *)
(***************************************************************************)
Init ==
    /\ objs = <<>>
    /\ regs = <<>>
    /\ models = [n \in Names |-> 0]
    /\ task = [t \in AdminTasks |-> NoTask]
    /\ bg = <<>>
    /\ client = [c \in Clients |-> NoClient]
    /\ metrics = [l \in Labels |->
                     [total |-> 0, success |-> 0, failure |-> 0, sla |-> 0]]
    /\ uuids = 0
    /\ ops = 0

\* a control-plane call is made
AdminCall(t) ==
    \/ \E n \in Names, v \in InputVersions, init_ok \in BOOLEAN : load(t, n, v, init_ok)
    \/ \E n \in Names : unload(t, n)
    \/ \E n \in Names, v \in InputVersions : unload_version(t, n, v)

\* a suspended control-plane coroutine is resumed
AdminStep(t) ==
    \/ \E outcome \in LoadHookOutcomes, v2 \in InputVersions : load_hook(t, outcome, v2)
    \/ \E outcome \in CallOutcomes : model_load(t, outcome)
    \/ unload_model_hooks(t)
    \/ \E outcome \in CallOutcomes : unload_model_unload(t, outcome)
    \/ \E outcome \in ReloadHookOutcomes : reload_hook(t, outcome)
    \/ \E outcome \in CallOutcomes : reload_load(t, outcome)
    \/ \E outcome \in CallOutcomes : reload_unload(t, outcome)
    \/ \E j \in 1..Len(task[t].subs) : gather_hooks(t, j)
    \/ \E j \in 1..Len(task[t].subs), outcome \in CallOutcomes : gather_unload(t, j, outcome)
    \/ unload_finish(t)

Background ==
    \/ \E j \in 1..Len(bg) : bg_hooks(j)
    \/ \E j \in 1..Len(bg), outcome \in CallOutcomes : bg_unload(j, outcome)

Reader == \E n \in Names, v \in InputVersions : read_model(n, v)

DataPlane ==
    \/ \E c \in Clients, id \in RequestIds, inputs \in RequestInputs, n \in Names,
          v \in InputVersions, mw_ok \in BOOLEAN : infer(c, id, inputs, n, v, mw_ok)
    \/ \E c \in Clients, outcome \in {"ok", "raise"}, rid \in ResponseIds,
          mw_ok \in BOOLEAN : predict_return(c, outcome, rid, mw_ok)

\* no control-plane coroutine is running: every call has returned and no
\* _unload_model of a gather that raised is left
Quiescent == bg = <<>> /\ \A t \in AdminTasks : task[t].pc \in {"idle", "done"}

\* the code as it is: control-plane calls interleave at their awaits
Next ==
    \/ \E t \in AdminTasks : AdminCall(t)
    \/ \E t \in AdminTasks : AdminStep(t)
    \/ Background
    \/ Reader

Spec == Init /\ [][Next]_vars

\* control-plane coroutines are serialised (spec section 5): a call is made
\* when none is running
SerialNext ==
    \/ Quiescent /\ AdminCall("t1")
    \/ AdminStep("t1")
    \/ Background
    \/ Reader

SerialSpec == Init /\ [][SerialNext]_vars

\* one control-plane call at a time, with inference requests in between
ServeNext ==
    \/ Quiescent /\ AdminCall("t1")
    \/ AdminStep("t1")
    \/ Background
    \/ Reader
    \/ DataPlane

ServeSpec == Init /\ [][ServeNext]_vars

(***************************************************************************)
(* Properties.                                                             *)
(***************************************************************************)
\* the SingleModelRegistry objects that MultiModelRegistry._models holds
Children == {models[n] : n \in {x \in Names : models[x] # 0}}

\* a load call of task t returns its model with this step
LoadReturns(t) ==
    /\ task[t].op = "load"
    /\ task[t].pc \in {"model_load", "reload_unload"}
    /\ task'[t].pc = "done"
    /\ task'[t].result = "ok"

\* C1: in every reachable state, a default pointer that is set and points to
\* a model with a version points to the very model that versions holds under
\* that version.
C1_DefaultIsRegistered ==
    \A rid \in Children :
        LET r == regs[rid]
        IN  (r.default # 0 /\ ~objs[r.default].version.isNone) =>
                /\ HasKey(r.versions, objs[r.default].version)
                /\ Lookup(r.versions, objs[r.default].version) = r.default

\* C2: in every reachable state every entry of versions has a non-null key
\* that is the version of the model stored under it.
C2_KeyIsVersion ==
    \A rid \in Children :
        \A i \in 1..Len(regs[rid].versions) :
            LET e == regs[rid].versions[i]
            IN  Truthy(e.k) /\ objs[e.m].version = e.k

\* C3: in every reachable state every name in _models maps to a registry
\* that is not empty.
C3_NoEmptyChild ==
    \A n \in Names : models[n] # 0 => ~empty(objs, regs[models[n]])

\* C4: when load(settings) returns, get_model(name, settings' version) is the
\* model that load returns and that model is ready.
C4_LoadReturnsLiveModel ==
    [][\A t \in AdminTasks :
        LoadReturns(t) =>
            /\ get_model(models', regs', objs', task[t].name, task[t].ver) = task[t].new
            /\ objs'[task[t].new].ready]_vars

\* a reader of (n, v) gets a model, and the model is ready
Serviceable(mdl, rs, o, n, v) ==
    LET g == get_model(mdl, rs, o, n, v) IN g # 0 /\ o[g].ready

\* C5: while a reload of a registered, ready version goes on (and the new
\* model's load returns true), and when it has ended, get_model(name, version)
\* gives a ready model; the old model stops being ready only once the new
\* one is ready and is the one registered.
C5_RollingReload ==
    [][\A t \in AdminTasks :
        /\ (task'[t].pc \in {"reload_hook", "reload_load"} /\ objs'[task'[t].old].ready)
              => Serviceable(models', regs', objs', task'[t].name, task'[t].ver)
        /\ ( /\ task'[t].pc = "reload_unload"
             /\ objs'[task'[t].old].ready
             /\ objs'[task'[t].cur].ready )
              => Serviceable(models', regs', objs', task'[t].name, task'[t].ver)
        /\ ( /\ task[t].pc = "reload_unload"
             /\ task'[t].pc = "done"
             /\ objs[task[t].old].ready
             /\ objs[task[t].cur].ready )
              => /\ Serviceable(models', regs', objs', task[t].name, task[t].ver)
                 /\ get_model(models, regs, objs, task[t].name, task[t].ver) = task[t].cur
                 /\ objs'[task[t].cur].ready]_vars

\* C5 witness: the new model is registered and ready, the old one is still
\* ready and its unload is awaited
C5_Witness ==
    /\ task["t1"].pc = "reload_unload"
    /\ objs[task["t1"].old].ready
    /\ objs[task["t1"].cur].ready
    /\ get_model(models, regs, objs, task["t1"].name, task["t1"].ver) = task["t1"].cur

\* this step leaves what every registry holds and every model built so far
\* as they were (`default` is the value of the property)
SameRegistries ==
    /\ models' = models
    /\ \A rid \in 1..Len(regs) :
          /\ regs'[rid].versions = regs[rid].versions
          /\ find_default(objs', regs'[rid]) = find_default(objs, regs[rid])
    /\ \A m \in 1..Len(objs) : objs'[m] = objs[m]

IsRegistered(rs, m) ==
    \E rid \in 1..Len(rs) :
        \/ rs[rid].default = m
        \/ \E i \in 1..Len(rs[rid].versions) : rs[rid].versions[i].m = m

\* C6: a reload that fails because an on_model_reload hook or the new
\* model's load raises propagates the error and changes nothing: versions,
\* default, every model's ready flag and unload count stay as they were at
\* each of its steps, and the new model is not registered.
C6_FailedReloadChangesNothing ==
    [][\A t \in AdminTasks :
        /\ (task'[t] # task[t] /\ task'[t].pc \in {"reload_hook", "reload_load"})
              => SameRegistries
        /\ (task[t].pc \in {"reload_hook", "reload_load"} /\ task'[t].pc = "done")
              => /\ SameRegistries
                 /\ task'[t].result = "Error"
                 /\ ~IsRegistered(regs', task[t].new)
                 /\ ~IsRegistered(regs', task[t].cur)]_vars

\* C6 witness: a reload has ended with the error that the new model's load
\* raised
C6_Witness ==
    /\ task["t1"].pc = "done"
    /\ task["t1"].path = "reload"
    /\ task["t1"].at = "reload_load"
    /\ task["t1"].result = "Error"

\* C7: when a first-load fails, versions holds no entry for the model being
\* loaded, the default is not that model, and get_model for the version of
\* the settings finds nothing.
C7_FailedFirstLoadRollsBack ==
    [][\A t \in AdminTasks :
        ( /\ task[t].pc \in {"load_hook", "model_load", "um_hooks", "um_unload"}
          /\ task[t].op = "load"
          /\ task[t].path = "first"
          /\ task'[t].pc = "done"
          /\ task'[t].result # "ok" )
        => /\ ~IsRegistered(regs', task[t].new)
           /\ ~IsRegistered(regs', task[t].cur)
           /\ find_default(objs', regs'[task[t].reg]) \notin {task[t].new, task[t].cur}
           /\ get_model(models', regs', objs', task[t].name, task[t].ver) = 0]_vars

\* C8: when unload(name) returns, the name is not in _models, get_model finds
\* nothing for any version nor for none, and Model.unload was invoked on every
\* model that was registered under the name.
C8_UnloadRemovesName ==
    [][\A t \in AdminTasks :
        ( /\ task'[t] # task[t]
          /\ task'[t].op = "unload"
          /\ task'[t].pc = "done"
          /\ task'[t].result = "ok" )
        => /\ models'[task'[t].name] = 0
           /\ \A v \in InputVersions :
                 get_model(models', regs', objs', task'[t].name, v) = 0
           /\ task[t].pc = "gather" =>
                 \A j \in 1..Len(task[t].subs) :
                     objs'[task[t].subs[j].m].unloads > task[t].subs[j].u0]_vars

\* C8 witness: an unload of a name that held a model has returned
C8_Witness ==
    /\ task["t1"].pc = "done"
    /\ task["t1"].op = "unload"
    /\ task["t1"].result = "ok"
    /\ task["t1"].at = "gather"
    /\ \E m \in 1..Len(objs) : objs[m].name = task["t1"].name /\ objs[m].unloads > 0

\* an infer call is made with this step
InferCall(c) == client'[c].call # client[c].call

\* C9: an infer call increments total once and exactly one of success and
\* failure: failure when it raises, at whichever step, success when it
\* returns a response.
C9_OneOutcomeCounted ==
    [][\A c \in Clients :
        LET l == <<client'[c].name, client'[c].ver>>
        IN  /\ InferCall(c) =>
                 /\ metrics'[l].total = metrics[l].total + 1
                 /\ client'[c].pc = "done" =>
                       /\ client'[c].result # "ok"
                       /\ metrics'[l].failure = metrics[l].failure + 1
                       /\ metrics'[l].success = metrics[l].success
                 /\ client'[c].pc = "predict" =>
                       /\ metrics'[l].failure = metrics[l].failure
                       /\ metrics'[l].success = metrics[l].success
            /\ (client[c].pc = "predict" /\ client'[c].pc = "done") =>
                 /\ metrics'[l].total = metrics[l].total
                 /\ \/ /\ client'[c].result = "ok"
                       /\ metrics'[l].success = metrics[l].success + 1
                       /\ metrics'[l].failure = metrics[l].failure
                    \/ /\ client'[c].result # "ok"
                       /\ metrics'[l].failure = metrics[l].failure + 1
                       /\ metrics'[l].success = metrics[l].success]_vars

\* C10: an infer call whose payload carries no SLA value (no inputs, no
\* parameters, no extended_parameters, no 'sla' key) sets the SLA gauge of
\* (name, version) to 0 and goes on to resolve the model: the lookup of the
\* SLA never makes infer raise.
C10_AbsentSlaIsZero ==
    \A c \in Clients :
        (client[c].pc \in {"predict", "done"} /\ sla_lookup(client[c].inputs).exc # "none")
        => /\ client[c].result \notin {"IndexError", "KeyError"}
           /\ metrics[<<client[c].name, client[c].ver>>].sla = 0

\* C11: unload() of a registry never fails: when its gather ends, unload
\* returns without an exception and the registry has no versions and no
\* default, also when the Model.unload of a version raises.
C11_UnloadNeverFails ==
    [][\A t \in AdminTasks :
        (task[t].pc = "gather" /\ task'[t].pc = "done")
        => /\ task'[t].result = "ok"
           /\ regs'[task[t].reg].versions = <<>>
           /\ regs'[task[t].reg].default = 0]_vars

(***************************************************************************)
(* The default of one name under calls that all succeed: loads and         *)
(* unload_versions of "m", one at a time, over versions of which two are   *)
(* equal as integers ("1" and "01"); hooks return a model and Model.load   *)
(* and Model.unload return True.                                           *)
(***************************************************************************)
OrderVersions == {None, Ver(<<"1">>), Ver(<<"0", "1">>), Ver(<<"2">>)}

OrderCall(t) ==
    \/ \E v \in OrderVersions : load(t, "m", v, TRUE)
    \/ \E v \in OrderVersions : unload_version(t, "m", v)

OrderStep(t) ==
    \/ \E outcome \in {"same", "wrap"} : load_hook(t, outcome, None)
    \/ model_load(t, "true")
    \/ unload_model_hooks(t)
    \/ unload_model_unload(t, "true")
    \/ \E outcome \in {"same", "wrap"} : reload_hook(t, outcome)
    \/ reload_load(t, "true")
    \/ reload_unload(t, "true")

OrderNext ==
    \/ Quiescent /\ OrderCall("t1")
    \/ OrderStep("t1")

OrderSpec == Init /\ [][OrderNext]_vars

\* C12: after calls that all succeeded, when no call is running, get_model
\* with no version gives the version-less default if there is one and else
\* what a full scan of versions for the maximum gives.
C12_DefaultIsFullScan ==
    \A n \in Names :
        (Quiescent /\ models[n] # 0) =>
            LET r == regs[models[n]]
                g == get_model(models, regs, objs, n, None)
            IN  IF r.default # 0 /\ objs[r.default].version.isNone
                THEN g = r.default
                ELSE g = find_default(objs, clear_default(r))

\* C18: when a first-load registers a versioned model that compares equal to
\* the current versioned default under _is_newer and has another version
\* string ("1" and "01"), the default stays the model it was.
C18_EqualKeepsDefault ==
    [][\A t \in AdminTasks :
        ( /\ task[t].pc \in {"idle", "done"}
          /\ task'[t].pc = "load_hook"
          /\ models[task'[t].name] # 0 )
        => LET d == regs[models[task'[t].name]].default
               v == task'[t].ver
           IN  ( /\ d # 0
                 /\ ~objs[d].version.isNone
                 /\ ~v.isNone
                 /\ v # objs[d].version
                 /\ is_newer(v, objs[d].version) = 0 )
               => regs'[task'[t].reg].default = d]_vars

\* C13: a request id that is set is left as it is, one that is unset is
\* assigned one fresh id before the model is resolved and is not written
\* again; when infer returns a response, the response's id is the request's.
C13_IdEcho ==
    [][\A c \in Clients :
        /\ (InferCall(c) /\ client'[c].pc = "predict") =>
              IF client'[c].reqid # 0
              THEN client'[c].id = client'[c].reqid /\ uuids' = uuids
              ELSE client'[c].id = 100 + uuids' /\ uuids' = uuids + 1
        /\ ( /\ client[c].pc = "predict"
             /\ client'[c].pc = "done"
             /\ client'[c].result = "ok" ) =>
              /\ client'[c].id = client[c].id
              /\ client'[c].resp = client'[c].id
              /\ client'[c].reqid # 0 => client'[c].resp = client'[c].reqid
              /\ uuids' = uuids]_vars

\* C13 witness: an infer call whose request had no id has returned a
\* response that carries the generated id
C13_Witness ==
    \E c \in Clients :
        /\ client[c].pc = "done"
        /\ client[c].result = "ok"
        /\ client[c].reqid = 0
        /\ client[c].id > 100
        /\ client[c].resp = client[c].id

\* C14: load(settings) reloads only when a model is registered under the
\* version of the settings, and a load leaves alone every model whose
\* version is another one: its ready flag stays and its Model.unload is not
\* invoked.
C14_ReloadOnlySameVersion ==
    [][\A t \in AdminTasks :
        /\ ( /\ task[t].pc \in {"idle", "done"}
             /\ task'[t].pc = "reload_hook" )
              => objs[task'[t].old].version = task'[t].ver
        /\ ( /\ task[t].op = "load"
             /\ task[t].pc \notin {"idle", "done"}
             /\ task'[t] # task[t] )
              => \A m \in 1..Len(objs) :
                    ( /\ m \notin {task[t].new, task[t].cur}
                      /\ objs[m].version # task[t].ver )
                    => /\ objs'[m].ready = objs[m].ready
                       /\ objs'[m].unloads = objs[m].unloads]_vars

\* C15: when Model.unload of a model that is unloaded (by unload_version, by
\* unload, or as the old model of a reload) returns False or raises, the
\* model's ready flag is false afterwards.
C15_FailedUnloadNotReady ==
    [][\A outcome \in {"false", "raise"} :
        /\ \A t \in AdminTasks :
              /\ reload_unload(t, outcome) => ~objs'[task[t].old].ready
              /\ (task[t].op = "unload_version" /\ unload_model_unload(t, outcome))
                    => ~objs'[task[t].cur].ready
              /\ \A j \in 1..Len(task[t].subs) :
                    gather_unload(t, j, outcome) => ~objs'[task[t].subs[j].m].ready
        /\ \A j \in 1..Len(bg) :
              bg_unload(j, outcome) => ~objs'[bg[j].m].ready]_vars

\* DataPlane.ready(): every model of every child registry is ready
dataplane_ready(mdl, rs, o) ==
    \A n \in Names :
        mdl[n] # 0 =>
            \A i \in 1..Len(get_models(o, rs[mdl[n]])) :
                o[get_models(o, rs[mdl[n]])[i]].ready

\* a first-load of task t has registered its model and Model.load has not
\* returned yet
FirstLoadPending(t) ==
    /\ task[t].op = "load"
    /\ task[t].path = "first"
    /\ task[t].pc \in {"load_hook", "model_load"}

\* readers during a first-load: get_model gives the pending model, it is not
\* ready, and DataPlane.ready() is false
PendingVisible ==
    \A t \in AdminTasks :
        FirstLoadPending(t) =>
            LET g == get_model(models, regs, objs, task[t].name, task[t].ver)
            IN  /\ g = task[t].cur
                /\ ~objs[g].ready
                /\ ~dataplane_ready(models, regs, objs)

\* C16: while a first-load is in progress the pending model is visible to
\* readers and not ready: get_model gives it, DataPlane.ready() is false, and
\* an infer call on it fails with ModelNotReady before the request
\* middleware and predict; DataPlane.ready() is true when nothing is
\* registered.
C16_PendingVisibleNotReady ==
    [][/\ PendingVisible'
       /\ (\A n \in Names : models'[n] = 0) => dataplane_ready(models', regs', objs')
       /\ \A c \in Clients, t \in AdminTasks :
             ( /\ InferCall(c)
               /\ FirstLoadPending(t)
               /\ client'[c].name = task[t].name
               /\ client'[c].ver = task[t].ver )
             => /\ client'[c].pc = "done"
                /\ client'[c].result = "ModelNotReady"
                /\ client'[c].mw = 0]_vars

(***************************************************************************)
(* Unloads that race: two versions of "m" are loaded and ready, as after   *)
(* load("m", "1") and load("m", "2"); unload and unload_version calls then *)
(* interleave at their awaits.  Every Model.unload returns True.           *)
(***************************************************************************)
LoadedInit ==
    /\ objs = << [name |-> "m", version |-> Ver(<<"1">>), ready |-> TRUE, unloads |-> 0],
                 [name |-> "m", version |-> Ver(<<"2">>), ready |-> TRUE, unloads |-> 0] >>
    /\ regs = << [name |-> "m",
                  versions |-> << [k |-> Ver(<<"1">>), m |-> 1],
                                  [k |-> Ver(<<"2">>), m |-> 2] >>,
                  default |-> 2] >>
    /\ models = [n \in Names |-> IF n = "m" THEN 1 ELSE 0]
    /\ task = [t \in AdminTasks |-> NoTask]
    /\ bg = <<>>
    /\ client = [c \in Clients |-> NoClient]
    /\ metrics = [l \in Labels |->
                     [total |-> 0, success |-> 0, failure |-> 0, sla |-> 0]]
    /\ uuids = 0
    /\ ops = 0

RaceCall(t) ==
    \/ \E n \in Names : unload(t, n)
    \/ \E n \in Names, v \in InputVersions : unload_version(t, n, v)

RaceStep(t) ==
    \/ unload_model_hooks(t)
    \/ unload_model_unload(t, "true")
    \/ \E j \in 1..Len(task[t].subs) : gather_hooks(t, j)
    \/ \E j \in 1..Len(task[t].subs) : gather_unload(t, j, "true")
    \/ unload_finish(t)

RaceBackground ==
    \/ \E j \in 1..Len(bg) : bg_hooks(j)
    \/ \E j \in 1..Len(bg) : bg_unload(j, "true")

RaceNext ==
    \/ \E t \in AdminTasks : RaceCall(t)
    \/ \E t \in AdminTasks : RaceStep(t)
    \/ RaceBackground

RaceSpec == LoadedInit /\ [][RaceNext]_vars

\* C17: unload_version(name, version) ends by having unloaded the model or
\* with ModelNotFound, with no other error, and a call that ends with
\* ModelNotFound has changed nothing, also when calls on the same name
\* interleave at the await on the on_model_unload hooks.
C17_UnloadVersionOnlyNotFound ==
    [][\A t \in AdminTasks :
        ( /\ task'[t] # task[t]
          /\ task'[t].op = "unload_version"
          /\ task'[t].pc = "done" )
        => /\ task'[t].result \in {"ok", "ModelNotFound"}
           /\ task'[t].result = "ModelNotFound" => SameRegistries]_vars

\* m is one of the models that get_models(name) gives
Reachable(mdl, rs, o, m) ==
    /\ mdl[o[m].name] # 0
    /\ \E i \in 1..Len(get_models(o, rs[mdl[o[m].name]])) :
          get_models(o, rs[mdl[o[m].name]])[i] = m

\* C19: when a load and an unload of the same name interleave, no model
\* whose load completed is dropped: once both calls have ended, every model
\* that is ready and on which Model.unload was never invoked is one that
\* get_models(name) gives, and a load that returns after the unload has
\* returned leaves its model reachable by get_model.
C19_LoadedNotDropped ==
    [][/\ \A t \in AdminTasks, u \in AdminTasks :
             ( /\ Quiescent'
               /\ task'[t].op = "load"
               /\ task'[u].op = "unload"
               /\ task'[u].name = task'[t].name )
             => \A m \in 1..Len(objs') :
                   (objs'[m].ready /\ objs'[m].unloads = 0)
                   => Reachable(models', regs', objs', m)
       /\ \A t \in AdminTasks, u \in AdminTasks :
             ( /\ LoadReturns(t)
               /\ task[u].pc = "done"
               /\ task[u].op = "unload"
               /\ task[u].result = "ok"
               /\ task[u].name = task[t].name )
             => get_model(models', regs', objs', task[t].name, task[t].ver) # 0]_vars

\* this step changes what name b holds: its entry in _models, its versions,
\* its default, the ready flag of one of its models, or the set of its models
Changed(b) ==
    \/ models'[b] # models[b]
    \/ /\ models[b] # 0
       /\ \/ regs'[models[b]].versions # regs[models[b]].versions
          \/ find_default(objs', regs'[models[b]]) # find_default(objs, regs[models[b]])
    \/ \E m \in 1..Len(objs) : objs[m].name = b /\ objs'[m] # objs[m]
    \/ \E m \in (Len(objs) + 1)..Len(objs') : objs'[m].name = b

====
